---- MODULE Spec2Model ----
(***************************************************************************)
(* Model of src/assets/js/main.js: the carousel animator.                  *)
(*                                                                         *)
(* JavaScript numbers are modelled as fixed-point integers: a quantity q   *)
(* of the script (a position, a speed, a distortion factor, a velocity)    *)
(* is the integer q * Scale, and every product with a fractional constant  *)
(* is truncated toward zero to a multiple of 1/Scale.  Pixel quantities    *)
(* (e.deltaY, clientX) and milliseconds are plain integers.                *)
(*                                                                         *)
(* Time advances only in the frame callback (one display refresh is        *)
(* FrameMs milliseconds); a setTimeout callback runs as soon as its delay  *)
(* has elapsed, before the next frame.                                     *)
(***************************************************************************)
EXTENDS Integers, Sequences, FiniteSets

\* ------------------------------------------------------------ bounds
\* Input events a run may deliver.
MaxEvents == 4
\* Input events are delivered in the first InputFrames frame intervals.
InputFrames == 1
\* Frames a run of Spec may execute.
MaxFrames == 18
\* Milliseconds between two display refreshes.
FrameMs == 50
\* Input events a run of LiveSpec may deliver.
LiveEvents == 2
\* Texture requests that resolve in a run of LoadSpec, and the input events and
\* frames of such a run.
MaxLoads == 2
LoadEvents == 1
LoadFrames == 4
\* updateCurve calls with arguments of their own in a run of CurveSpec, and the
\* frames of such a run.
CurveCalls == 2
CurveFrames == 2

\* Fixed-point unit: the integer that stands for 1.0.
Scale == 10 ^ 4

\* e.deltaY values of a wheel event (pixels): a notch of a pixel-precise wheel,
\* a notch of a line wheel, and fast scrolls in both directions.
DeltaYs == {-4000, 2, 100, 4000}
\* e.deltaY values of the wheel-only runs.
WheelOnlyDeltaYs == {100}
\* e.touches[0].clientX values (pixels).
TouchXs == {0, 100, 500}
\* e.key values.
Keys == {"ArrowLeft", "ArrowRight", "Enter"}
\* texture.image.width / texture.image.height of a loaded image: a square image
\* and one wider than a slide.
ImageAspects == {Scale, 3 * Scale}
\* Vertices (x, y) of PlaneGeometry(slideWidth, slideHeight, 32, 16) whose Z the
\* model follows: two corners, the centre and a vertex on the horizontal axis.
VertexSample ==
    << <<-((3 * Scale) \div 2), (3 * Scale) \div 4>>,
       <<0, 0>>,
       <<(3 * Scale) \div 4, 0>>,
       <<(3 * Scale) \div 2, -((3 * Scale) \div 4)>> >>
\* worldPositionX and distortionFactor arguments of the updateCurve calls of
\* CurveSpec.
WorldXs == {-Scale, (5 * Scale) \div 2}
Factors == {-(Scale \div 2), Scale}

\* ------------------------------------------------------------ arithmetic
Abs(x) == IF x < 0 THEN -x ELSE x
Sign(x) == IF x > 0 THEN 1 ELSE IF x < 0 THEN -1 ELSE 0
Min(a, b) == IF a < b THEN a ELSE b
Max(a, b) == IF a > b THEN a ELSE b

\* JavaScript's a % b for b > 0: the remainder has the sign of the dividend.
JsRem(a, b) == IF a >= 0 THEN a % b ELSE -((-a) % b)

\* x * c for a fixed-point constant c >= 0 (c stands for c / Scale).
Mul(x, c) ==
    Sign(x) * ((Abs(x) \div Scale) * c + ((Abs(x) % Scale) * c) \div Scale)

\* ------------------------------------------------------------ settings
wheelSensitivity == Scale \div 100
touchSensitivity == Scale \div 100
momentumMultiplier == 2
smoothing == Scale \div 10
slideLerp == (75 * Scale) \div 1000
distortionDecay == (95 * Scale) \div 100
maxDistortion == (25 * Scale) \div 10
distortionSensitivity == (15 * Scale) \div 100
distortionSmoothing == (75 * Scale) \div 1000

slideWidth == 3 * Scale
slideHeight == (15 * Scale) \div 10
gap == Scale \div 10
slideCount == 10
totalWidth == slideCount * (slideWidth + gap)
\* A slide unit that leaves the gap out.
slideUnitNoGap == slideWidth

slideUnit == slideWidth + gap

\* Delays of the two setTimeout calls (ms).
WheelDelay == 150
TouchDelay == 800
\* deltaTime of a frame that has no previous timestamp (0.016 s), in ms.
DefaultDeltaMs == 16

SlideIds == 0 .. (slideCount - 1)

VARIABLES
    currentPosition, targetPosition, isScrolling, autoScrollSpeed, lastTime,
    touchStartX, touchLastX,
    currentDistortionFactor, targetDistortionFactor, peakVelocity, velocityHistory,
    slides,          \* slides[i]: [positionX, targetX, currentX]
    textures,        \* textures[i]: the texture request of slide i and what its
                     \* callbacks made of the mesh: [request, imgAspect, material,
                     \* scaleX, scaleY]
    vertexZ,         \* vertexZ[i][v]: the Z coordinate of vertex VertexSample[v] in
                     \* the geometry of slide i
    timers,          \* pending setTimeout callbacks: [id, cb, remaining]
    nextTimerId,     \* the id the next setTimeout returns
    scrollTimeout,   \* window.scrollTimeout: a timer id, 0 while undefined
    touch,           \* the touch gesture: "none" (no gesture yet), "down" (a finger is on
                     \* the screen), "fling" or "slow" (how the last gesture ended)
    nEvents,         \* input events delivered so far (in CurveSpec: updateCurve
                     \* calls made with arguments of their own)
    frames,          \* frames run so far
    last             \* the callback that ran last, with its argument (deltaY, clientX,
                     \* the fired timer's id, the distortionFactor of an updateCurve
                     \* call; for a key 1 = ArrowLeft, -1 = ArrowRight)

touchVars == <<touchStartX, touchLastX>>
frameVars == <<lastTime, peakVelocity, velocityHistory, slides>>
timerVars == <<timers, nextTimerId, scrollTimeout>>
meshVars == <<textures, vertexZ>>
vars == <<currentPosition, targetPosition, isScrolling, autoScrollSpeed, lastTime,
          touchStartX, touchLastX, currentDistortionFactor, targetDistortionFactor,
          peakVelocity, velocityHistory, slides, textures, vertexZ, timers, nextTimerId,
          scrollTimeout, touch, nEvents, frames, last>>

\* ------------------------------------------------------------ initial state
\* createSlide(index) without the slides.forEach that centres the strip.
InitSlideUncentred(i) ==
    LET x == i * (slideWidth + gap)
    IN  [positionX |-> x, targetX |-> x, currentX |-> x]

\* createSlide(index) followed by the slides.forEach that centres the strip.
InitSlide(i) ==
    LET x == i * (slideWidth + gap) - totalWidth \div 2
    IN  [positionX |-> x, targetX |-> x, currentX |-> x]

\* The mesh of a slide as createSlide leaves it: the white placeholder material,
\* scale (1, 1), and a texture request under way.
InitTexture ==
    [request |-> "pending", imgAspect |-> 0, material |-> "placeholder",
     scaleX |-> Scale, scaleY |-> Scale]

Init ==
    /\ currentPosition = 0
    /\ targetPosition = 0
    /\ isScrolling = FALSE
    /\ autoScrollSpeed = 0
    /\ lastTime = "zero"
    /\ touchStartX = 0
    /\ touchLastX = 0
    /\ currentDistortionFactor = 0
    /\ targetDistortionFactor = 0
    /\ peakVelocity = 0
    /\ velocityHistory = <<0, 0, 0, 0, 0>>
    /\ slides = [i \in SlideIds |-> InitSlide(i)]
    /\ textures = [i \in SlideIds |-> InitTexture]
    /\ vertexZ = [i \in SlideIds |-> [v \in DOMAIN VertexSample |-> 0]]
    /\ timers = {}
    /\ nextTimerId = 1
    /\ scrollTimeout = 0
    /\ touch = "none"
    /\ nEvents = 0
    /\ frames = 0
    /\ last = [op |-> "init", arg |-> 0]

\* ------------------------------------------------------------ timers
\* setTimeout(cb, delay): the timers after the call.
SetTimeout(ts, cb, delay) ==
    ts \cup {[id |-> nextTimerId, cb |-> cb, remaining |-> delay]}

\* clearTimeout(id): a no-op when no pending timer has that id.
ClearTimeout(ts, id) == {t \in ts : t.id # id}

\* An input event can be delivered: the script has run to its end (its last
\* statement is the first call of animate), and the budget is not used up.
CanInput == nEvents < MaxEvents /\ frames >= 1 /\ frames <= InputFrames

Delivered(op, arg) ==
    /\ nEvents' = nEvents + 1
    /\ last' = [op |-> op, arg |-> arg]
    /\ UNCHANGED <<frames>>

\* ------------------------------------------------------------ input handlers
\* window "keydown".
KeyDown(key) ==
    /\ IF key = "ArrowLeft"
         THEN /\ targetPosition' = targetPosition + slideUnit
              /\ targetDistortionFactor' =
                     Min(Scale, targetDistortionFactor + (3 * Scale) \div 10)
         ELSE IF key = "ArrowRight"
         THEN /\ targetPosition' = targetPosition - slideUnit
              /\ targetDistortionFactor' =
                     Min(Scale, targetDistortionFactor + (3 * Scale) \div 10)
         ELSE UNCHANGED <<targetPosition, targetDistortionFactor>>
    /\ UNCHANGED <<currentPosition, isScrolling, autoScrollSpeed, currentDistortionFactor>>
    /\ UNCHANGED <<touchVars, frameVars, timerVars, meshVars, touch>>
    /\ Delivered("keydown", IF key = "ArrowLeft" THEN 1 ELSE IF key = "ArrowRight" THEN -1 ELSE 0)

\* A wheel speed that is not capped.
WheelSpeedUncapped(deltaY) == (deltaY * 5 * Scale) \div 10000

\* autoScrollSpeed set by a wheel event.
WheelSpeed(deltaY) ==
    Min((Abs(deltaY) * 5 * Scale) \div 10000, (5 * Scale) \div 100) * Sign(deltaY)

\* A wheel handler that starts its timer without clearing the pending one.
WheelTimersKeepOld(ts) == SetTimeout(ts, "wheel", WheelDelay)

\* The pending timers after the wheel handler's clearTimeout / setTimeout pair.
WheelTimers(ts) == SetTimeout(ClearTimeout(ts, scrollTimeout), "wheel", WheelDelay)

\* window "wheel".
Wheel(deltaY) ==
    /\ LET wheelStrength == (Abs(deltaY) * Scale) \div 1000
       IN  targetDistortionFactor' = Min(Scale, targetDistortionFactor + wheelStrength)
    /\ targetPosition' = targetPosition - deltaY * wheelSensitivity
    /\ isScrolling' = TRUE
    /\ autoScrollSpeed' = WheelSpeed(deltaY)
    /\ timers' = WheelTimers(timers)
    /\ scrollTimeout' = nextTimerId
    /\ nextTimerId' = nextTimerId + 1
    /\ UNCHANGED <<currentPosition, currentDistortionFactor>>
    /\ UNCHANGED <<touchVars, frameVars, meshVars, touch>>
    /\ Delivered("wheel", deltaY)

\* A touchstart handler that leaves isScrolling alone.
TouchStartKeepsScrolling == isScrolling

\* isScrolling after the touchstart handler.
TouchStartScrolling == FALSE

\* window "touchstart" (a first finger is put down).
TouchStart(x) ==
    /\ touch # "down"
    /\ touchStartX' = x
    /\ touchLastX' = x
    /\ isScrolling' = TouchStartScrolling
    /\ touch' = "down"
    /\ UNCHANGED <<currentPosition, targetPosition, autoScrollSpeed,
                   currentDistortionFactor, targetDistortionFactor>>
    /\ UNCHANGED <<frameVars, timerVars, meshVars>>
    /\ Delivered("touchstart", x)

\* window "touchmove".
TouchMove(touchX) ==
    /\ touch = "down"
    /\ LET deltaX == touchX - touchLastX
           touchStrength == (Abs(deltaX) * 2 * Scale) \div 100
       IN  /\ touchLastX' = touchX
           /\ targetDistortionFactor' = Min(Scale, targetDistortionFactor - touchStrength)
           /\ targetPosition' = targetPosition - deltaX * touchSensitivity
    /\ isScrolling' = TRUE
    /\ UNCHANGED <<currentPosition, autoScrollSpeed, currentDistortionFactor, touchStartX>>
    /\ UNCHANGED <<frameVars, timerVars, meshVars, touch>>
    /\ Delivered("touchmove", touchX)

\* velocity of the touchend handler.
Velocity == (touchLastX - touchStartX) * ((5 * Scale) \div 1000)

\* The handler's test Math.abs(velocity) > 0.5.
IsFling(velocity) == Abs(velocity) > Scale \div 2

\* A fling speed with the sign of the velocity.
FlingSpeedSameSign(velocity) == Mul(velocity * momentumMultiplier, (5 * Scale) \div 100)

\* autoScrollSpeed set by a fling.
FlingSpeed(velocity) == Mul(-velocity * momentumMultiplier, (5 * Scale) \div 100)

\* A fling distortion that is not capped.
FlingDistortionUncapped(velocity) == Mul(Abs(velocity) * 3, distortionSensitivity)

\* targetDistortionFactor set by a fling.
FlingDistortion(velocity) == Min(Scale, Mul(Abs(velocity) * 3, distortionSensitivity))

\* window "touchend".
TouchEnd ==
    /\ touch = "down"
    /\ touch' = IF IsFling(Velocity) THEN "fling" ELSE "slow"
    /\ IF IsFling(Velocity)
         THEN /\ autoScrollSpeed' = FlingSpeed(Velocity)
              /\ targetDistortionFactor' = FlingDistortion(Velocity)
              /\ isScrolling' = TRUE
              /\ timers' = SetTimeout(timers, "touch", TouchDelay)
              /\ nextTimerId' = nextTimerId + 1
         ELSE UNCHANGED <<autoScrollSpeed, targetDistortionFactor, isScrolling,
                          timers, nextTimerId>>
    /\ UNCHANGED <<currentPosition, targetPosition, currentDistortionFactor, scrollTimeout>>
    /\ UNCHANGED <<touchVars, frameVars, meshVars>>
    /\ Delivered("touchend", 0)

\* A setTimeout callback whose delay has elapsed: isScrolling = false.
Timeout ==
    \E t \in timers :
        /\ t.remaining <= 0
        /\ timers' = timers \ {t}
        /\ isScrolling' = FALSE
        /\ last' = [op |-> "timeout", arg |-> t.id]
        /\ UNCHANGED <<currentPosition, targetPosition, autoScrollSpeed,
                       currentDistortionFactor, targetDistortionFactor>>
        /\ UNCHANGED <<touchVars, frameVars, meshVars, nextTimerId, scrollTimeout,
                       touch, nEvents, frames>>

\* ------------------------------------------------------------ texture loads
\* The mesh after the onLoad callback of its TextureLoader.load: a material of
\* its own that maps the texture, and the scale that fits the image's aspect.
Loaded(imgAspect) ==
    LET slideAspect == (slideWidth * Scale) \div slideHeight
    IN  [request |-> "loaded", imgAspect |-> imgAspect, material |-> "image",
         scaleX |-> IF imgAspect > slideAspect
                      THEN (slideHeight * imgAspect) \div slideWidth
                      ELSE Scale,
         scaleY |-> IF imgAspect > slideAspect
                      THEN Scale
                      ELSE (((slideWidth * Scale) \div imgAspect) * Scale) \div slideHeight]

\* An onError callback after which the request is still under way.
FailedStaysPending(mesh) == mesh

\* The mesh after the onError callback: a console.warn, nothing else.
Failed(mesh) == [mesh EXCEPT !.request = "failed"]

\* A texture request can resolve: the script has run to its end, and fewer
\* than MaxLoads requests have resolved.
CanLoad ==
    /\ frames >= 1
    /\ Cardinality({i \in SlideIds : textures[i].request # "pending"}) < MaxLoads

Resolved ==
    /\ last' = [op |-> "load", arg |-> 0]
    /\ UNCHANGED <<currentPosition, targetPosition, isScrolling, autoScrollSpeed,
                   currentDistortionFactor, targetDistortionFactor>>
    /\ UNCHANGED <<touchVars, frameVars, timerVars, vertexZ, touch, nEvents, frames>>

\* onLoad of slide i's texture request.
OnLoad(i, imgAspect) ==
    /\ textures[i].request = "pending"
    /\ textures' = [textures EXCEPT ![i] = Loaded(imgAspect)]
    /\ Resolved

\* onError of slide i's texture request.
OnError(i) ==
    /\ textures[i].request = "pending"
    /\ textures' = [textures EXCEPT ![i] = Failed(textures[i])]
    /\ Resolved

\* ------------------------------------------------------------ animate
\* A momentum decay that never sets the speed to 0.
DecaySpeedNoSnap(speed) ==
    LET speedBasedDecay == (97 * Scale) \div 100 - Mul(Abs(speed), Scale \div 2)
    IN  Mul(speed, Max((92 * Scale) \div 100, speedBasedDecay))

\* autoScrollSpeed after the momentum decay of one frame.
DecaySpeed(speed) ==
    LET speedBasedDecay == (97 * Scale) \div 100 - Mul(Abs(speed), Scale \div 2)
        decayed == Mul(speed, Max((92 * Scale) \div 100, speedBasedDecay))
    IN  IF Abs(decayed) < Scale \div 1000 THEN 0 ELSE decayed

\* An integrator that adds the whole distance and the fraction on top of it.
ApproachOvershoot(current, target, factor) ==
    current + (target - current) + Mul(target - current, factor)

\* current += (target - current) * factor.
Approach(current, target, factor) == current + Mul(target - current, factor)

\* A wrap that takes the remainder once, without the shift that makes it positive.
WrapXSingleRemainder(i, position) ==
    LET wrapped == JsRem(i * slideUnit - position, totalWidth)
    IN  IF wrapped > totalWidth \div 2 THEN wrapped - totalWidth ELSE wrapped

\* baseX of slide i: i * slideUnit - currentPosition wrapped around the strip.
WrapX(i, position) ==
    LET raw == i * slideUnit - position
        wrapped == JsRem(JsRem(raw, totalWidth) + totalWidth, totalWidth)
    IN  IF wrapped > totalWidth \div 2 THEN wrapped - totalWidth ELSE wrapped

\* A wrap test with a threshold of one slide width.
IsWrappingOneSlide(baseX, targetX) == Abs(baseX - targetX) > slideWidth

\* isWrapping of the slide loop.
IsWrapping(baseX, targetX) == Abs(baseX - targetX) > slideWidth * 2

\* A proximity test with the threshold of half the strip.
IsNearHalfStrip(currentX) == 4 * Abs(currentX) < totalWidth

\* The proximity test that guards the position update of a slide.
IsNear(currentX) ==
    LET wrapThreshold == totalWidth \div 2 + slideWidth
    IN  Abs(currentX) < (wrapThreshold * 3) \div 2

\* One slide after the body of slides.forEach.  (baseX and the new currentX are
\* bound once each, as the const and the field of the callback are.)
MoveSlide(slide, i, position) ==
    CHOOSE moved \in
        { [positionX |-> IF IsNear(currentX) THEN currentX ELSE slide.positionX,
           targetX |-> baseX,
           currentX |-> currentX] :
          <<baseX, currentX>> \in
              { <<b, Approach(IF IsWrapping(b, slide.targetX) THEN b ELSE slide.currentX,
                              b, slideLerp)>> :
                b \in {WrapX(i, position)} } } : TRUE

\* deltaTime of the frame, in ms.
DeltaMs == IF lastTime = "stamp" THEN FrameMs ELSE DefaultDeltaMs

Sum5(h) == h[1] + h[2] + h[3] + h[4] + h[5]

\* targetPosition after the momentum step of a frame.
MomentumTarget == IF isScrolling THEN targetPosition + autoScrollSpeed ELSE targetPosition

\* autoScrollSpeed after the momentum step of a frame.
MomentumSpeed == IF isScrolling THEN DecaySpeed(autoScrollSpeed) ELSE autoScrollSpeed

\* targetDistortionFactor after the frame's raise and decay, for the frame's
\* currentVelocity, avgVelocity and (pre-decay) peakVelocity.
DistortTarget(factor, currentVelocity, avgVelocity, peak) ==
    LET isDecelerating ==
            /\ avgVelocity * 10 < 7 * (peak + Scale \div 1000)
            /\ peak > Scale \div 2
        movementDistortion == Min(Scale, Mul(currentVelocity, Scale \div 10))
        raised == IF currentVelocity > (5 * Scale) \div 100
                    THEN Max(factor, movementDistortion)
                    ELSE factor
        decayRate == IF isDecelerating
                       THEN distortionDecay
                       ELSE Mul(distortionDecay, (9 * Scale) \div 10)
    IN  IF isDecelerating \/ avgVelocity < (2 * Scale) \div 10
          THEN Mul(raised, decayRate)
          ELSE raised

\* The value of a one-element set.  (It binds a value that a definition uses
\* more than once, so that it is computed once.)
The(S) == CHOOSE x \in S : TRUE

\* Math.sqrt of a positive integer, rounded down: Newton's iteration from a
\* root at or above the square root, until it stops decreasing.
RECURSIVE SqrtFrom(_, _)
SqrtFrom(x, root) ==
    The({ IF next >= root THEN root ELSE SqrtFrom(x, next) :
          next \in {(root + x \div root) \div 2} })

Sqrt(x) ==
    The({ IF square = 0 THEN 0 ELSE SqrtFrom(square, Min(square, 2 ^ 15 - 1)) :
          square \in {x} })

\* Math.sin(strength * Math.PI / 2) for a strength in [0, 1], by Bhaskara's
\* rational approximation sin(t) = 16 t (pi - t) / (5 pi^2 - 4 t (pi - t)), which
\* for t = strength * pi / 2 is 4 u / (5 - u) with u = strength * (2 - strength).
SinHalfPi(strength) ==
    The({ IF s = 0
            THEN 0
            ELSE The({ (4 * u * Scale) \div (5 * Scale - u) :
                       u \in {Mul(s, 2 * Scale - s)} }) :
          s \in {strength} })

\* Math.pow(x, 1.5) for x in [0, 1]: x * sqrt(x), and 0 for 0.
Pow15(x) ==
    The({ IF base = 0
            THEN 0
            ELSE The({ Mul(base, root) : root \in {Sqrt(base * Scale)} }) :
          base \in {x} })

\* distortionStrength of updateCurve for a vertex at (vertexWorldPosX, y), less
\* than distortionRadius (2.0) from the centre line.
DistortionStrength(vertexWorldPosX, y) ==
    Max(0, Scale - Sqrt(vertexWorldPosX * vertexWorldPosX + y * y) \div 2)

\* curveZ of updateCurve for the original vertex (x, y).  A vertex at least
\* distortionRadius from the centre line is at least that far from the centre:
\* its distortionStrength is 0 and its curveZ is Math.pow(0, 1.5) * maxCurvature.
CurveZ(vertex, worldPositionX, maxCurvature) ==
    IF Abs(worldPositionX + vertex[1]) >= 2 * Scale
      THEN 0
      ELSE The({ Mul(maxCurvature, curve) :
                 curve \in {Pow15(SinHalfPi(DistortionStrength(
                                worldPositionX + vertex[1], vertex[2])))} })

\* A setZ that adds curveZ to the Z the vertex has.
SetZAccumulate(z, curveZ) == z + curveZ

\* positionAttribute.setZ(i, curveZ): the vertex's Z after the call.
SetZ(z, curveZ) == curveZ

\* updateCurve(mesh, worldPositionX, distortionFactor): the Z coordinates of the
\* mesh's vertices after the call, zs being the ones before it.
UpdateCurve(zs, worldPositionX, distortionFactor) ==
    The({ [v \in DOMAIN VertexSample |->
              SetZ(zs[v], CurveZ(VertexSample[v], worldPositionX, maxCurvature))] :
          maxCurvature \in {Mul(distortionFactor, maxDistortion)} })

\* The Z coordinates of a slide's vertices after the body of slides.forEach,
\* which calls updateCurve if the slide (as the body has moved it) passes the
\* proximity test.
CurveSlide(zs, moved, distortionFactor) ==
    The({ IF IsNear(slide.currentX)
            THEN UpdateCurve(zs, slide.positionX, distortionFactor)
            ELSE zs :
          slide \in {moved} })

\* The time of one display refresh passes for every pending timer.
Elapse(ts, ms) == {[t EXCEPT !.remaining = t.remaining - ms] : t \in ts}

\* animate(time): one frame.  The first call is the script's own, at load.
\* (Each intermediate value of the callback is bound once, in the order the
\* callback computes it.)
Animate ==
    /\ \A t \in timers : t.remaining > 0
    /\ \E newTarget \in {MomentumTarget} :
       \E newPosition \in {Approach(currentPosition, newTarget, smoothing)} :
       \E currentVelocity \in {(Abs(newPosition - currentPosition) * 1000) \div DeltaMs} :
       \E history \in {Tail(velocityHistory) \o <<currentVelocity>>} :
       \E avgVelocity \in {Sum5(history) \div 5} :
       \E peak \in {Max(peakVelocity, avgVelocity)} :
       \E newFactor \in {DistortTarget(targetDistortionFactor, currentVelocity,
                                       avgVelocity, peak)} :
       \E newDistortion \in {Approach(currentDistortionFactor, newFactor,
                                      distortionSmoothing)} :
           /\ targetPosition' = newTarget
           /\ autoScrollSpeed' = MomentumSpeed
           /\ currentPosition' = newPosition
           /\ velocityHistory' = history
           /\ peakVelocity' = Mul(peak, (99 * Scale) \div 100)
           /\ targetDistortionFactor' = newFactor
           /\ currentDistortionFactor' = newDistortion
           /\ slides' = [i \in SlideIds |-> MoveSlide(slides[i], i, newPosition)]
           /\ vertexZ' = [i \in SlideIds |->
                            CurveSlide(vertexZ[i], MoveSlide(slides[i], i, newPosition),
                                       newDistortion)]
    /\ lastTime' = IF lastTime = "zero" THEN "undefined" ELSE "stamp"
    /\ timers' = IF lastTime = "zero" THEN timers ELSE Elapse(timers, FrameMs)
    /\ frames' = Min(frames + 1, MaxFrames)
    /\ last' = [op |-> "frame", arg |-> 0]
    /\ UNCHANGED <<isScrolling, touchVars, textures, nextTimerId, scrollTimeout, touch, nEvents>>

\* A frame of a run that executes at most MaxFrames frames.
Frame == frames < MaxFrames /\ Animate

\* ------------------------------------------------------------ specifications
\* Runs of at most MaxEvents input events, delivered in the first InputFrames
\* frame intervals, and MaxFrames frames.
Next ==
    \/ \E key \in Keys : CanInput /\ KeyDown(key)
    \/ \E deltaY \in DeltaYs : CanInput /\ Wheel(deltaY)
    \/ \E x \in TouchXs : CanInput /\ TouchStart(x)
    \/ \E x \in TouchXs : CanInput /\ TouchMove(x)
    \/ CanInput /\ TouchEnd
    \/ Timeout
    \/ Frame

Spec == Init /\ [][Next]_vars

\* Wheel-only runs: at most MaxEvents wheel events, delivered at any frame.
CanWheel == nEvents < MaxEvents /\ frames >= 1

NextWheel ==
    \/ \E deltaY \in WheelOnlyDeltaYs : CanWheel /\ Wheel(deltaY)
    \/ Timeout
    \/ Frame

WheelSpec == Init /\ [][NextWheel]_vars

\* Runs of at most LiveEvents input events and any number of frames.  The
\* display keeps refreshing, and a timer whose delay has elapsed runs.
CanInputLive == nEvents < LiveEvents /\ frames >= 1 /\ frames <= InputFrames

NextLive ==
    \/ \E key \in Keys : CanInputLive /\ KeyDown(key)
    \/ \E deltaY \in DeltaYs : CanInputLive /\ Wheel(deltaY)
    \/ \E x \in TouchXs : CanInputLive /\ TouchStart(x)
    \/ \E x \in TouchXs : CanInputLive /\ TouchMove(x)
    \/ CanInputLive /\ TouchEnd
    \/ Timeout
    \/ Animate

LiveSpec == Init /\ [][NextLive]_vars /\ WF_vars(Animate) /\ WF_vars(Timeout)

\* Runs in which texture requests resolve, in any order, between at most
\* LoadEvents key and wheel events and LoadFrames frames.
CanInputLoad == nEvents < LoadEvents /\ frames >= 1 /\ frames <= InputFrames

NextLoad ==
    \/ \E i \in SlideIds : \E imgAspect \in ImageAspects : CanLoad /\ OnLoad(i, imgAspect)
    \/ \E i \in SlideIds : CanLoad /\ OnError(i)
    \/ \E key \in Keys : CanInputLoad /\ KeyDown(key)
    \/ \E deltaY \in WheelOnlyDeltaYs : CanInputLoad /\ Wheel(deltaY)
    \/ Timeout
    \/ frames < LoadFrames /\ Animate

LoadSpec == Init /\ [][NextLoad]_vars

\* Runs of Spec in which the wheel is not turned while a finger is on the
\* screen: during a drag, touchmove is the only handler that moves the strip.
NextDrag ==
    \/ \E key \in Keys : CanInput /\ KeyDown(key)
    \/ \E deltaY \in DeltaYs : CanInput /\ touch # "down" /\ Wheel(deltaY)
    \/ \E x \in TouchXs : CanInput /\ TouchStart(x)
    \/ \E x \in TouchXs : CanInput /\ TouchMove(x)
    \/ CanInput /\ TouchEnd
    \/ Timeout
    \/ Frame

DragSpec == Init /\ [][NextDrag]_vars

\* updateCurve called for slide i with arguments of its own choice.
Deform(i, worldPositionX, distortionFactor) ==
    /\ nEvents < CurveCalls
    /\ frames >= 1
    /\ vertexZ' = [vertexZ EXCEPT ![i] = UpdateCurve(vertexZ[i], worldPositionX,
                                                      distortionFactor)]
    /\ nEvents' = nEvents + 1
    /\ last' = [op |-> "curve", arg |-> distortionFactor]
    /\ UNCHANGED <<currentPosition, targetPosition, isScrolling, autoScrollSpeed,
                   currentDistortionFactor, targetDistortionFactor>>
    /\ UNCHANGED <<touchVars, frameVars, timerVars, textures, touch, frames>>

\* Runs without input in which the meshes are deformed with any distortion
\* factor and any position (at most CurveCalls times) between the frames: the
\* frames of these runs find any earlier deformation in the geometry.
NextCurve ==
    \/ \E i \in SlideIds : \E x \in WorldXs : \E f \in Factors : Deform(i, x, f)
    \/ frames < CurveFrames /\ Animate

CurveSpec == Init /\ [][NextCurve]_vars

\* ------------------------------------------------------------ claims
\* No touch gesture is in progress and no setTimeout callback is pending.
Quiet == touch # "down" /\ timers = {}

\* C1: once the input has ended and every pending debounce timer has fired,
\* isScrolling is false.  With no input and no timer left nothing but the frame
\* callback runs, and it never writes isScrolling: the flag must be false already.
C1_QuietIsIdle == Quiet => ~isScrolling

\* The timer of the most recent gesture, a fling, is still running: that timer
\* is the newest one (no wheel event followed the fling), no finger was put down
\* since, and less than TouchDelay ms have passed.
InFlingWindow ==
    /\ touch = "fling"
    /\ \E t \in timers : t.cb = "touch" /\ t.id = nextTimerId - 1 /\ t.remaining > 0

\* C2: for the TouchDelay ms after a fling (no touchstart in between),
\* isScrolling stays true, whatever timers of earlier gestures are pending.
C2_FlingKeepsScrolling == InFlingWindow => isScrolling

\* C3: in a run of wheel events only, isScrolling is true exactly while the
\* debounce timer of the most recent wheel event is pending: at most one wheel
\* timer is pending, it is the one window.scrollTimeout names, every wheel event
\* restarts it at WheelDelay ms, and isScrolling is false before the first wheel
\* event and after the timer has run.
C3_WheelDebounce ==
    /\ Cardinality({t \in timers : t.cb = "wheel"}) <= 1
    /\ isScrolling = (timers # {})
    /\ \A t \in timers : t.cb = "wheel" /\ t.id = scrollTimeout /\ t.remaining <= WheelDelay
    /\ last.op = "wheel" => \A t \in timers : t.remaining = WheelDelay

\* The timer of a second wheel event ran WheelDelay ms after that event, which
\* arrived while the first event's timer was pending (at most one frame later).
C3_Witness ==
    /\ last = [op |-> "timeout", arg |-> 2]
    /\ nEvents = 2
    /\ frames * FrameMs = 2 * FrameMs + WheelDelay
    /\ ~isScrolling
    /\ timers = {}

\* The release of the touchend handler is a fling: |velocity| > 0.5 with
\* velocity = (touchLastX - touchStartX) * 0.005.
FlingRelease == Abs(touchLastX - touchStartX) * 5 > 500

\* C4 as stated: every input event (an arrow key, wheel, touchstart, touchmove,
\* touchend) leaves isScrolling true, and isScrolling goes from true to false
\* only in a timer callback.
C4_EveryInputScrolls ==
    [][ /\ ( \/ last'.op \in {"wheel", "touchstart", "touchmove", "touchend"}
             \/ last'.op = "keydown" /\ last'.arg # 0 ) => isScrolling'
        /\ (isScrolling /\ ~isScrolling') => last'.op = "timeout" ]_vars

\* C4 amended: wheel, touchmove and a fling touchend leave isScrolling true; a
\* keydown and a touchend that is no fling leave it unchanged; touchstart leaves
\* it false; and isScrolling goes from true to false only in a timer callback
\* or in the touchstart handler, never in another handler or in a frame.
C4_ScrollingTransitions ==
    [][ /\ last'.op \in {"wheel", "touchmove"} => isScrolling'
        /\ last'.op = "touchend" =>
              IF FlingRelease THEN isScrolling' ELSE isScrolling' = isScrolling
        /\ last'.op = "keydown" => isScrolling' = isScrolling
        /\ last'.op = "touchstart" => ~isScrolling'
        /\ (isScrolling /\ ~isScrolling') => last'.op \in {"timeout", "touchstart"} ]_vars

\* A finger was put down right after a wheel event: the touchstart handler, not
\* the wheel timer (still pending), has cleared isScrolling.
C4_Witness ==
    /\ last.op = "touchstart"
    /\ nEvents = 2
    /\ \E t \in timers : t.cb = "wheel" /\ t.remaining > 0
    /\ ~isScrolling

\* C5: after every frame, whatever currentPosition is, the baseX stored in each
\* slide's targetX lies in (-totalWidth/2, totalWidth/2].
C5_WrapInvariant ==
    last.op = "frame" =>
        \A i \in SlideIds :
            /\ 2 * slides[i].targetX > -totalWidth
            /\ 2 * slides[i].targetX <= totalWidth

\* A frame has laid the slides out for a currentPosition more than two strip
\* lengths from the origin: i * slideUnit - currentPosition is below -totalWidth
\* for every slide, so the inner remainder of the wrap is negative.
C5_Witness ==
    /\ last.op = "frame"
    /\ currentPosition > totalWidth + slideCount * slideUnit
    /\ \E i \in SlideIds : slides[i].targetX < 0
    /\ \E i \in SlideIds : slides[i].targetX > 0

\* C6: in a frame in which a slide's new baseX differs from its previous targetX
\* by more than 2 * slideWidth the slide's currentX ends equal to its targetX; in
\* every other frame currentX moves toward targetX by the fraction slideLerp of
\* the remaining distance.
C6_WrapSnap ==
    [][ last'.op = "frame" =>
          \A i \in SlideIds :
            LET before == slides[i]
                after == slides'[i]
            IN  IF Abs(after.targetX - before.targetX) > 2 * slideWidth
                  THEN after.currentX = after.targetX
                  ELSE after.currentX =
                         before.currentX + Mul(after.targetX - before.currentX, slideLerp) ]_vars

\* A frame that moved currentPosition has carried one slide across the edge of
\* the strip, where it snapped (currentX = targetX), while another slide is
\* still on its way to its targetX.
C6_Witness ==
    /\ last.op = "frame"
    /\ velocityHistory[5] > 0
    /\ frames > 1
    /\ \E i \in SlideIds : slides[i].currentX = slides[i].targetX
    /\ \E i \in SlideIds : slides[i].currentX # slides[i].targetX

\* The position error is below the resolution of the integrator: the step
\* error * smoothing is less than one unit of the fixed-point grid.
PositionSettled == Abs(targetPosition - currentPosition) < Scale \div smoothing

\* C7: once the input has ended, targetPosition stops changing and
\* currentPosition converges to it; and in every frame that leaves targetPosition
\* unchanged the error shrinks to (1 - smoothing) of itself (rounded up to the
\* grid) and keeps its sign: currentPosition never crosses targetPosition.
C7_PositionConverges ==
    /\ <>[][targetPosition' = targetPosition]_vars
    /\ <>[]PositionSettled
    /\ [][ (last'.op = "frame" /\ targetPosition' = targetPosition) =>
             /\ Sign(targetPosition' - currentPosition')
                  \in {Sign(targetPosition - currentPosition), 0}
             /\ Abs(targetPosition' - currentPosition')
                  - Mul(Abs(targetPosition - currentPosition), Scale - smoothing)
                  \in {0, 1} ]_vars

\* After input that moved targetPosition by more than a strip length, the frames
\* have brought currentPosition to it.
C7_Witness ==
    /\ last.op = "frame"
    /\ nEvents > 0
    /\ Abs(targetPosition) > totalWidth
    /\ currentPosition # 0
    /\ PositionSettled

\* C8 (its autoScrollSpeed half, in the idle state the claim names): with no
\* gesture in progress, no timer pending and isScrolling false, the frame loop
\* still drives autoScrollSpeed toward 0: a frame leaves it at 0 or strictly
\* reduces its magnitude.
C8_IdleFramesDecaySpeed ==
    [][ (last'.op = "frame" /\ Quiet /\ ~isScrolling) =>
            \/ autoScrollSpeed' = 0
            \/ Abs(autoScrollSpeed') < Abs(autoScrollSpeed) ]_vars

\* C9: a wheel event with delta deltaY changes targetPosition by exactly
\* -deltaY * wheelSensitivity (0.01) and sets autoScrollSpeed to
\* min(|deltaY| * 0.0005, 0.05) * sign(deltaY): deltaY = 100 gives -1.0 and 0.05,
\* and |autoScrollSpeed| <= 0.05 after any wheel event.
C9_WheelStep ==
    [][ last'.op = "wheel" =>
          LET deltaY == last'.arg
          IN  /\ 100 * (targetPosition' - targetPosition) = -deltaY * Scale
              /\ 10000 * autoScrollSpeed' =
                     Sign(deltaY) * Min(Abs(deltaY) * 5 * Scale, 500 * Scale)
              /\ 100 * Abs(autoScrollSpeed') <= 5 * Scale
              /\ deltaY = 100 =>
                     /\ targetPosition' - targetPosition = -Scale
                     /\ 100 * autoScrollSpeed' = 5 * Scale ]_vars

\* A wheel event with deltaY = 100 arrived right after a fling, whose
\* autoScrollSpeed had a magnitude above 0.05: the speed is now 0.05.
C9_Witness ==
    /\ last = [op |-> "wheel", arg |-> 100]
    /\ touch = "fling"
    /\ nEvents = 4
    /\ 100 * autoScrollSpeed = 5 * Scale

\* C10: on touchend, with velocity = (touchLastX - touchStartX) * 0.005: if
\* |velocity| > 0.5, autoScrollSpeed becomes -velocity * momentumMultiplier * 0.05
\* (= -velocity * 0.1), targetDistortionFactor becomes min(1, |velocity| * 0.45),
\* isScrolling becomes true and a TouchDelay (800 ms) timer is added to the
\* pending ones; otherwise autoScrollSpeed, targetDistortionFactor,
\* targetPosition, isScrolling and the pending timers are unchanged.
C10_TouchEndStep ==
    [][ last'.op = "touchend" =>
          LET pixels == touchLastX - touchStartX
          IN  IF Abs(pixels) * 5 > 500
                THEN /\ 2000 * autoScrollSpeed' = -pixels * Scale
                     /\ targetDistortionFactor' =
                            Min(Scale, (Abs(pixels) * 225 * Scale) \div 100000)
                     /\ isScrolling'
                     /\ targetPosition' = targetPosition
                     /\ timers' = timers \cup
                            {[id |-> nextTimerId, cb |-> "touch", remaining |-> TouchDelay]}
                     /\ Cardinality(timers') = Cardinality(timers) + 1
                ELSE /\ autoScrollSpeed' = autoScrollSpeed
                     /\ targetDistortionFactor' = targetDistortionFactor
                     /\ targetPosition' = targetPosition
                     /\ isScrolling' = isScrolling
                     /\ timers' = timers ]_vars

\* A finger was lifted 500 pixels from where it was put down (velocity 2.5):
\* the speed is -0.25, the distortion target is clamped to 1.0, scrolling is on
\* and the 800 ms timer is pending.
C10_Witness ==
    /\ last.op = "touchend"
    /\ touchLastX - touchStartX = 500
    /\ 4 * autoScrollSpeed = -Scale
    /\ targetDistortionFactor = Scale
    /\ isScrolling
    /\ \E t \in timers : t.cb = "touch" /\ t.remaining = TouchDelay

\* C11: in every reachable state targetDistortionFactor <= 1 and
\* currentDistortionFactor <= 1; and no callback other than touchmove takes the
\* two factors from a state where both are >= 0 to a state where one is below 0
\* (they start at 0, so a run without a touchmove event keeps both >= 0).
C11_DistortionRange ==
    /\ [](targetDistortionFactor <= Scale /\ currentDistortionFactor <= Scale)
    /\ [][ ( /\ last'.op # "touchmove"
             /\ targetDistortionFactor >= 0
             /\ currentDistortionFactor >= 0 ) =>
           ( /\ targetDistortionFactor' >= 0
             /\ currentDistortionFactor' >= 0 ) ]_vars

\* A fling has set targetDistortionFactor and a frame has run since: the target
\* is still above 0.5 and currentDistortionFactor has risen above 0.
C11_Witness ==
    /\ last.op = "frame"
    /\ touch = "fling"
    /\ currentDistortionFactor > 0
    /\ currentDistortionFactor <= Scale
    /\ targetDistortionFactor > Scale \div 2

\* The mesh that slide i's request leaves behind is a function of how that
\* request resolved, and of nothing else.
SettledMesh(mesh) ==
    IF mesh.request = "loaded"
      THEN /\ mesh.material = "image"
           /\ IF mesh.imgAspect > 2 * Scale
                THEN /\ mesh.scaleY = Scale
                     /\ 2 * mesh.scaleX = mesh.imgAspect
                ELSE /\ mesh.scaleX = Scale
                     /\ mesh.scaleY * mesh.imgAspect = 2 * Scale * Scale
      ELSE /\ mesh.material = "placeholder"
           /\ mesh.scaleX = Scale
           /\ mesh.scaleY = Scale
           /\ mesh.imgAspect = 0

\* C12: texture requests resolve in any order, between frames and input events.
\* A texture callback is the callback of one slide's request, which was under
\* way and no longer is; it changes the material and scale of that slide only
\* and nothing of the carousel; no other callback changes any material or scale;
\* in every state each slide's material and scale are the ones its own outcome
\* determines (so they do not depend on the order); and a failed request leaves
\* the placeholder material and is not retried.
C12_LoadsIndependent ==
    /\ [](\A i \in SlideIds : SettledMesh(textures[i]))
    /\ [][ last'.op = "load" =>
             /\ \E i \in SlideIds :
                   /\ textures[i].request = "pending"
                   /\ textures'[i].request \in {"loaded", "failed"}
                   /\ textures'[i].request = "failed" =>
                          /\ textures'[i].material = "placeholder"
                          /\ textures'[i].scaleX = textures[i].scaleX
                          /\ textures'[i].scaleY = textures[i].scaleY
                   /\ \A j \in SlideIds \ {i} : textures'[j] = textures[j]
             /\ UNCHANGED <<currentPosition, targetPosition, isScrolling, autoScrollSpeed,
                            currentDistortionFactor, targetDistortionFactor, touchVars,
                            frameVars, timerVars, touch, nEvents, frames>> ]_vars
    /\ [][ \A i \in SlideIds :
             (last'.op # "load" \/ textures[i].request # "pending")
                 => textures'[i] = textures[i] ]_vars

\* Two requests have resolved, with an input event and a frame before the
\* second: one failed, and one loaded an image wider than the slide.
C12_Witness ==
    /\ last.op = "load"
    /\ nEvents = LoadEvents
    /\ frames > 1
    /\ \E i, j \in SlideIds :
          /\ i > j
          /\ textures[i].request = "failed"
          /\ textures[j].request = "loaded"
          /\ textures[j].scaleX > Scale

\* C13: whatever Z coordinates earlier deformations (with any distortion factor,
\* at any slide position) have left in the geometries, a frame gives every
\* vertex of every slide it deforms the curveZ of that vertex for the frame's
\* currentDistortionFactor and the slide's position, computed from the original
\* vertex alone; so a frame whose currentDistortionFactor is 0 leaves every such
\* Z at 0, wherever the slide is.
C13_FlatAtZero ==
    [][ last'.op = "frame" =>
          \A i \in SlideIds :
            2 * Abs(slides'[i].currentX) < 3 * (totalWidth \div 2 + slideWidth) =>
              \A v \in DOMAIN VertexSample :
                /\ vertexZ'[i][v] =
                       CurveZ(VertexSample[v], slides'[i].positionX,
                              Mul(currentDistortionFactor', maxDistortion))
                /\ currentDistortionFactor' = 0 => vertexZ'[i][v] = 0 ]_vars

\* A frame with currentDistortionFactor 0 has run right after CurveCalls
\* deformations with non-zero factors, and every vertex of every slide is at
\* Z = 0, the slides being spread over the whole strip.
C13_Witness ==
    /\ last.op = "frame"
    /\ frames = CurveFrames
    /\ nEvents = CurveCalls
    /\ currentDistortionFactor = 0
    /\ \A i \in SlideIds : \A v \in DOMAIN VertexSample : vertexZ[i][v] = 0
    /\ \E i \in SlideIds : slides[i].positionX = 0
    /\ \E i \in SlideIds : slides[i].positionX > 4 * slideWidth

\* C14: an ArrowLeft keydown adds one slide unit (3.1) to targetPosition and an
\* ArrowRight keydown subtracts one (so the pair restores targetPosition); each
\* sets targetDistortionFactor to min(1.0, targetDistortionFactor + 0.3); any
\* other key leaves both unchanged; and no keydown changes isScrolling,
\* autoScrollSpeed, currentPosition or any other state.
C14_KeyDownStep ==
    [][ last'.op = "keydown" =>
          /\ 10 * (targetPosition' - targetPosition) = last'.arg * 31 * Scale
          /\ last'.arg # 0 =>
                 /\ 10 * targetDistortionFactor' <= 10 * Scale
                 /\ 10 * targetDistortionFactor' =
                        Min(10 * Scale, 10 * targetDistortionFactor + 3 * Scale)
          /\ last'.arg = 0 => targetDistortionFactor' = targetDistortionFactor
          /\ UNCHANGED <<isScrolling, autoScrollSpeed, currentPosition,
                         currentDistortionFactor, touchVars, frameVars, timerVars,
                         meshVars, touch, frames>> ]_vars

\* ArrowLeft, then ArrowRight, with no frame in between: targetPosition is back
\* at 0 and targetDistortionFactor is 0.6.
C14_Witness ==
    /\ last = [op |-> "keydown", arg |-> -1]
    /\ nEvents = 2
    /\ frames = 1
    /\ targetPosition = 0
    /\ 10 * targetDistortionFactor = 6 * Scale
    /\ ~isScrolling
    /\ autoScrollSpeed = 0

\* C15: with 10 slides, slideWidth 3.0 and gap 0.1 (slideUnit 3.1, totalWidth
\* 31.0), after initialization and before the first frame the position.x, the
\* targetX and the currentX of every slide are index * 3.1 - 15.5.
C15_InitialLayout ==
    frames = 0 =>
        /\ slideCount = 10
        /\ 10 * slideUnit = 31 * Scale
        /\ totalWidth = 31 * Scale
        /\ \A i \in 0 .. 9 :
              /\ 10 * slides[i].positionX = (i * 31 - 155) * Scale
              /\ slides[i].targetX = slides[i].positionX
              /\ slides[i].currentX = slides[i].positionX

\* The state the script's initialization leaves: slide 0 is at -15.5 and slide 9
\* at 12.4, and no frame has run.
C15_Witness ==
    /\ last.op = "init"
    /\ frames = 0
    /\ 2 * slides[0].positionX = -31 * Scale
    /\ 10 * slides[9].currentX = 124 * Scale

\* C16: a frame with isScrolling true adds the autoScrollSpeed it finds to
\* targetPosition and multiplies autoScrollSpeed by
\* max(0.92, 0.97 - |autoScrollSpeed| * 0.5): a non-zero speed strictly loses
\* magnitude and keeps its sign, and the result is exactly 0 when its magnitude
\* is below 0.001.  A frame with isScrolling false leaves targetPosition and
\* autoScrollSpeed unchanged.
C16_MomentumStep ==
    [][ last'.op = "frame" =>
          IF isScrolling
            THEN /\ targetPosition' = targetPosition + autoScrollSpeed
                 /\ LET decay == Max((92 * Scale) \div 100,
                                     (97 * Scale) \div 100
                                         - Mul(Abs(autoScrollSpeed), Scale \div 2))
                        decayed == Mul(autoScrollSpeed, decay)
                    IN  autoScrollSpeed' =
                            IF 1000 * Abs(decayed) < Scale THEN 0 ELSE decayed
                 /\ autoScrollSpeed # 0 => Abs(autoScrollSpeed') < Abs(autoScrollSpeed)
                 /\ Sign(autoScrollSpeed') \in {Sign(autoScrollSpeed), 0}
                 /\ autoScrollSpeed' # 0 => 1000 * Abs(autoScrollSpeed') >= Scale
            ELSE /\ targetPosition' = targetPosition
                 /\ autoScrollSpeed' = autoScrollSpeed ]_vars

\* The frame after a wheel event with deltaY = 2 (speed 0.001): it has added the
\* speed to targetPosition (-0.02 + 0.001) and, the decayed speed being below
\* 0.001, set autoScrollSpeed to 0 while isScrolling is still true.
C16_Witness ==
    /\ last.op = "frame"
    /\ nEvents = 1
    /\ frames = 2
    /\ isScrolling
    /\ autoScrollSpeed = 0
    /\ 1000 * targetPosition = -19 * Scale

\* C17: after a wheel event with deltaY # 0 the autoScrollSpeed that the next
\* frames add to targetPosition has the sign of the displacement the wheel event
\* itself applied to targetPosition.
C17_WheelMomentumSameDirection ==
    [][ (last'.op = "wheel" /\ last'.arg # 0) =>
            Sign(autoScrollSpeed') = Sign(targetPosition' - targetPosition) ]_vars

\* C18: in runs in which no wheel event arrives while a finger is on the
\* screen, a frame during the drag (between touchstart and touchend) does not
\* change targetPosition: only the touchmove handler moves it, and no momentum
\* of an earlier wheel or touch gesture is added.
C18_NoStaleMomentum ==
    [][ (last'.op = "frame" /\ touch = "down") =>
            targetPosition' = targetPosition ]_vars

\* C19: in every reachable state every slide's currentX satisfies
\* |currentX| <= totalWidth / 2, so it passes the proximity test
\* |currentX| < 1.5 * (totalWidth / 2 + slideWidth) of every frame, and its mesh
\* position.x equals its currentX: no slide is skipped or keeps a stale position.
C19_NoSlideSkipped ==
    \A i \in SlideIds :
        /\ 2 * Abs(slides[i].currentX) <= totalWidth
        /\ 4 * Abs(slides[i].currentX) < 3 * (totalWidth + 2 * slideWidth)
        /\ slides[i].positionX = slides[i].currentX

\* After input and more than one frame, a slide is within a slide unit of the
\* edge of the strip while it eases toward its targetX, and another slide has
\* been carried across the edge and snapped.
C19_Witness ==
    /\ last.op = "frame"
    /\ nEvents > 0
    /\ frames > 2
    /\ \E i \in SlideIds :
          /\ 2 * Abs(slides[i].currentX) > totalWidth - 2 * slideUnit
          /\ slides[i].currentX # slides[i].targetX
    /\ \E i \in SlideIds :
          /\ slides[i].currentX = slides[i].targetX
          /\ slides[i].positionX = slides[i].currentX

\* C20: with no input, the first frame finds every slide where the
\* initialization put it: it leaves each slide's targetX and currentX at their
\* initial values (so no slide's baseX is more than 2 * slideWidth from its
\* targetX, and none snaps).
C20_FirstFrameKeepsLayout ==
    [][ (frames = 0 /\ last'.op = "frame") =>
            \A i \in SlideIds :
                /\ slides'[i].targetX = slides[i].targetX
                /\ slides'[i].currentX = slides[i].currentX ]_vars

====
